---- MODULE Spec2Model ----
(***************************************************************************)
(* Model of the zod schema generator of basketry/zod:                      *)
(*   SchemaFile.body, SchemaFile.buildSchema, SchemaFile.buildMember,      *)
(*   SchemaFile.buildRequiredKey, SchemaFile.buildMemberSchema and sort.   *)
(*                                                                         *)
(* A string of the program that is compared, converted or ordered (a name, *)
(* a type name) is a sequence of one-character strings; a value that is    *)
(* only copied into the output (a constant, a default, a bound, a pattern) *)
(* is an integer.                                                          *)
(***************************************************************************)
EXTENDS Integers, Sequences, FiniteSets, TLC

VARIABLES schemas, httpMethods, pc, sorted, unsorted, sortedNames,
          prevUnsortedLength, circular, ready, idx, out

vars == <<schemas, httpMethods, pc, sorted, unsorted, sortedNames,
          prevUnsortedLength, circular, ready, idx, out>>

(***************************************************************************)
(* Bounds of the model.                                                    *)
(***************************************************************************)
\* the most non-primitive properties one Type of a worklist carries
MaxRefs == 2
\* the most rules one member carries
MaxRules == 2
\* the most declared properties of a Type
MaxProps == 2
\* the most required keys of a map
MaxKeys == 2
\* the most members of a Union
MaxMembers == 3

(***************************************************************************)
(* Strings and the case conversions of the 'case' package.                 *)
(***************************************************************************)
Lower == {"a", "b"}
Upper == {"A", "B"}

IsUpper(c) == c \in Upper

up(c) == CASE c = "a" -> "A" [] c = "b" -> "B" [] OTHER -> c

low(c) == CASE c = "A" -> "a" [] c = "B" -> "b" [] OTHER -> c

\* pascal: the words of s (split at "_") joined, each with its first letter
\* in upper case
RECURSIVE pascalFrom(_, _)
pascalFrom(s, border) ==
    IF s = <<>> THEN <<>>
    ELSE IF Head(s) = "_" THEN pascalFrom(Tail(s), TRUE)
    ELSE <<(IF border THEN up(Head(s)) ELSE Head(s))>> \o pascalFrom(Tail(s), FALSE)

pascal(s) == pascalFrom(s, TRUE)

\* camel: pascal with the first letter in lower case
camel(s) ==
    LET p == pascal(s) IN IF p = <<>> THEN <<>> ELSE <<low(Head(p))>> \o Tail(p)

\* the UTF-16 code unit of a character
CodeUnit(c) ==
    CASE c = "A" -> 65 [] c = "B" -> 66 [] c = "_" -> 95
      [] c = "a" -> 97 [] c = "b" -> 98

\* the primary (letter) weight of a character in the default collation:
\* punctuation before letters, a letter the same in both cases
PrimaryWeight(c) ==
    CASE c = "_" -> 0 [] c \in {"a", "A"} -> 1 [] c \in {"b", "B"} -> 2

\* the case (tertiary) weight: lower case before upper case
CaseWeight(c) == IF IsUpper(c) THEN 1 ELSE 0

RECURSIVE LexCompare(_, _)
LexCompare(x, y) ==
    IF x = <<>> THEN (IF y = <<>> THEN 0 ELSE -1)
    ELSE IF y = <<>> THEN 1
    ELSE IF Head(x) < Head(y) THEN -1
    ELSE IF Head(x) > Head(y) THEN 1
    ELSE LexCompare(Tail(x), Tail(y))

PrimaryKey(s) == [k \in 1..Len(s) |-> PrimaryWeight(s[k])]
CaseKey(s) == [k \in 1..Len(s) |-> CaseWeight(s[k])]

\* String.prototype.localeCompare under the default (ICU root) collation:
\* the letters decide first, whatever their case; the case breaks a tie
localeCompare(a, b) ==
    LET p == LexCompare(PrimaryKey(a), PrimaryKey(b))
    IN  IF p # 0 THEN p ELSE LexCompare(CaseKey(a), CaseKey(b))

(***************************************************************************)
(* The service model: members, rules, elements, schemas.                   *)
(***************************************************************************)
NoValue == [has |-> FALSE, value |-> 0]
Val(v) == [has |-> TRUE, value |-> v]

Rule(id, n) == [id |-> id, n |-> n]

\* rules.find((r) => r.id === id): the first rule with that id
RECURSIVE find(_, _)
find(rules, id) ==
    IF rules = <<>> THEN [has |-> FALSE, n |-> 0]
    ELSE IF Head(rules).id = id THEN [has |-> TRUE, n |-> Head(rules).n]
    ELSE find(Tail(rules), id)

\* isRequired of basketry: the member carries a 'required' rule
isRequired(member) == \E k \in 1..Len(member.rules) : member.rules[k].id = "required"

\* hasKind: a TypedValue (a union member) has no kind
hasKind(member) == member.kind # "TypedValue"

Primitive(kind, name, primitive, rules, constant, default, isArray) ==
    [kind |-> kind, name |-> name, isPrimitive |-> TRUE, primitive |-> primitive,
     typeName |-> <<>>, isArray |-> isArray, constant |-> constant,
     default |-> default, rules |-> rules]

Complex(kind, name, typeName, rules, isArray) ==
    [kind |-> kind, name |-> name, isPrimitive |-> FALSE, primitive |-> "",
     typeName |-> typeName, isArray |-> isArray, constant |-> NoValue,
     default |-> NoValue, rules |-> rules]

Required == <<Rule("required", 0)>>

StringKey == Primitive("MapKey", <<>>, "string", <<>>, NoValue, NoValue, FALSE)
StringValue == Primitive("MapValue", <<>>, "string", <<>>, NoValue, NoValue, FALSE)

NoMap == [present |-> FALSE, key |-> StringKey, value |-> StringValue,
          requiredKeys |-> <<>>]
Map(key, value, requiredKeys) ==
    [present |-> TRUE, key |-> key, value |-> value, requiredKeys |-> requiredKeys]

NoDiscriminator == [present |-> FALSE, value |-> <<>>]

Element(kind, name) ==
    [kind |-> kind, name |-> name, properties |-> <<>>, parameters |-> <<>>,
     members |-> <<>>, values |-> <<>>, mapProperties |-> NoMap, rules |-> <<>>,
     discriminator |-> NoDiscriminator]

Type(name, properties, mapProperties, rules) ==
    [Element("Type", name) EXCEPT !.properties = properties,
                                  !.mapProperties = mapProperties, !.rules = rules]
Method(name, parameters) == [Element("Method", name) EXCEPT !.parameters = parameters]
Union(name, members, discriminator) ==
    [Element("Union", name) EXCEPT !.members = members, !.discriminator = discriminator]
Enum(name, values) == [Element("Enum", name) EXCEPT !.values = values]

\* buildTypeName / buildParamsType of @basketry/typescript: the Name of a schema
buildTypeName(element) == pascal(element.name)

Schema(element) == [name |-> buildTypeName(element), element |-> element]

(***************************************************************************)
(* sort                                                                    *)
(***************************************************************************)
\* members.filter((m) => !m.isPrimitive).map((m) => pascal(m.typeName.value))
complexNames(members) ==
    LET f[k \in 0..Len(members)] ==
          IF k = 0 THEN <<>>
          ELSE f[k - 1] \o (IF ~members[k].isPrimitive
                            THEN <<pascal(members[k].typeName)>> ELSE <<>>)
    IN  f[Len(members)]

\* complexMembers without the key and value types of a map
complexMembersNoMap(schema) ==
    LET e == schema.element IN
    CASE e.kind = "Type" -> complexNames(e.properties)
      [] e.kind = "Method" -> complexNames(e.parameters)
      [] e.kind = "Union" -> complexNames(e.members)
      [] e.kind = "Enum" -> <<>>

\* the Names an entity depends on, as sort collects them
complexMembers(schema) ==
    LET e == schema.element IN
    CASE e.kind = "Type" ->
           complexNames(e.properties)
           \o (IF e.mapProperties.present /\ ~e.mapProperties.key.isPrimitive
               THEN <<pascal(e.mapProperties.key.typeName)>> ELSE <<>>)
           \o (IF e.mapProperties.present /\ ~e.mapProperties.value.isPrimitive
               THEN <<pascal(e.mapProperties.value.typeName)>> ELSE <<>>)
      [] e.kind = "Method" -> complexNames(e.parameters)
      [] e.kind = "Union" -> complexNames(e.members)
      [] e.kind = "Enum" -> <<>>

\* isSortable with one sorted dependency taken for all of them
isSortableWrong(schema, names) ==
    LET cm == complexMembers(schema) IN
    Len(cm) = 0 \/ \E k \in 1..Len(cm) : cm[k] \in names \/ cm[k] = schema.name

\* the test of one entity in one pass
isSortable(schema, names) ==
    LET cm == complexMembers(schema) IN
    Len(cm) = 0 \/ \A k \in 1..Len(cm) : cm[k] \in names \/ cm[k] = schema.name

\* compareNames with its arguments exchanged
compareNamesWrong(a, b) == localeCompare(b.name, a.name)

\* the comparator handed to Array.prototype.sort
compareNames(a, b) == localeCompare(a.name, b.name)

\* Array.prototype.sort is stable: an insertion sort by the comparator
RECURSIVE insert(_, _)
insert(x, s) ==
    IF s = <<>> THEN <<x>>
    ELSE IF compareNames(x, Head(s)) < 0 THEN <<x>> \o s
    ELSE <<Head(s)>> \o insert(x, Tail(s))

RECURSIVE sortByName(_)
sortByName(s) ==
    IF s = <<>> THEN <<>>
    ELSE insert(s[Len(s)], sortByName(SubSeq(s, 1, Len(s) - 1)))

NameSet(s) == {s[k].name : k \in 1..Len(s)}

\* SortPass without the update of prevUnsortedLength
SortPassNoUpdate(st) ==
    LET Sortable(s) == isSortable(s, st.sortedNames)
        Unsortable(s) == ~isSortable(s, st.sortedNames)
        sortable == SelectSeq(st.unsorted, Sortable)
        unsortable == SelectSeq(st.unsorted, Unsortable)
        noProgress == st.prevUnsortedLength = Len(unsortable)
    IN  [sorted |-> st.sorted \o sortByName(sortable),
         unsorted |-> unsortable,
         sortedNames |-> st.sortedNames \cup NameSet(sortable),
         prevUnsortedLength |-> st.prevUnsortedLength,
         returned |-> noProgress,
         circular |-> IF noProgress THEN unsortable ELSE <<>>,
         ready |-> Append(st.ready, Len(sortable))]

\* SortPass that gives up the unsorted entities when a pass makes no progress
SortPassDropsCircular(st) ==
    LET Sortable(s) == isSortable(s, st.sortedNames)
        Unsortable(s) == ~isSortable(s, st.sortedNames)
        sortable == SelectSeq(st.unsorted, Sortable)
        unsortable == SelectSeq(st.unsorted, Unsortable)
        noProgress == st.prevUnsortedLength = Len(unsortable)
    IN  [sorted |-> st.sorted \o sortByName(sortable),
         unsorted |-> unsortable,
         sortedNames |-> st.sortedNames \cup NameSet(sortable),
         prevUnsortedLength |-> IF noProgress THEN st.prevUnsortedLength
                                ELSE Len(unsortable),
         returned |-> noProgress,
         circular |-> <<>>,
         ready |-> Append(st.ready, Len(sortable))]

\* one iteration of the while loop of sort
SortPass(st) ==
    LET Sortable(s) == isSortable(s, st.sortedNames)
        Unsortable(s) == ~isSortable(s, st.sortedNames)
        sortable == SelectSeq(st.unsorted, Sortable)
        unsortable == SelectSeq(st.unsorted, Unsortable)
        noProgress == st.prevUnsortedLength = Len(unsortable)
    IN  [sorted |-> st.sorted \o sortByName(sortable),
         unsorted |-> unsortable,
         sortedNames |-> st.sortedNames \cup NameSet(sortable),
         prevUnsortedLength |-> IF noProgress THEN st.prevUnsortedLength
                                ELSE Len(unsortable),
         returned |-> noProgress,
         circular |-> IF noProgress THEN unsortable ELSE <<>>,
         ready |-> Append(st.ready, Len(sortable))]

SortStart(list) ==
    [sorted |-> <<>>, unsorted |-> list, sortedNames |-> {},
     prevUnsortedLength |-> Len(list), returned |-> FALSE, circular |-> <<>>,
     ready |-> <<>>]

\* the whole of sort on a worklist
RECURSIVE SortLoop(_)
SortLoop(st) ==
    IF st.returned \/ st.unsorted = <<>> THEN st ELSE SortLoop(SortPass(st))

sort(list) == SortLoop(SortStart(list))

(***************************************************************************)
(* buildMemberSchema: the operations of a member's schema, in the order    *)
(* they are pushed (the program joins them with '.').                      *)
(***************************************************************************)
Op(op, n) == [op |-> op, n |-> n, ref |-> <<>>, quoted |-> FALSE]
Quoted(op, n) == [op |-> op, n |-> n, ref |-> <<>>, quoted |-> TRUE]
RefOp(op, ref) == [op |-> op, n |-> 0, ref |-> ref, quoted |-> FALSE]

When(cond, ops) == IF cond THEN ops ELSE <<>>

NoOptions == [preventOptional |-> FALSE, circular |-> <<>>]
Circular(list) == [preventOptional |-> FALSE, circular |-> list]
PreventOptional == [preventOptional |-> TRUE, circular |-> <<>>]

\* getHttpMethodByName of basketry: the binding of the method of that name
getHttpMethodByName(methods, name) ==
    IF \E k \in 1..Len(methods) : methods[k].name = name
    THEN LET k == CHOOSE k \in 1..Len(methods) :
                    /\ methods[k].name = name
                    /\ \A j \in 1..(k - 1) : methods[j].name # name
         IN  [has |-> TRUE, parameters |-> methods[k].parameters]
    ELSE [has |-> FALSE, parameters |-> <<>>]

\* httpMethod.parameters.find((p) => camel(p.name.value) === camel(member.name.value))
findHttpParam(parameters, name) ==
    IF \E k \in 1..Len(parameters) : camel(parameters[k].name) = camel(name)
    THEN LET k == CHOOSE k \in 1..Len(parameters) :
                    /\ camel(parameters[k].name) = camel(name)
                    /\ \A j \in 1..(k - 1) : camel(parameters[j].name) # camel(name)
         IN  [has |-> TRUE, in |-> parameters[k].in]
    ELSE [has |-> FALSE, in |-> ""]

\* shouldCoerce that does not look at the location of the parameter
shouldCoerceWrong(member, parent, methods) ==
    IF hasKind(member) /\ member.kind = "Parameter" /\ parent.element.kind = "Method"
    THEN LET httpMethod == getHttpMethodByName(methods, parent.element.name)
             httpParam == findHttpParam(httpMethod.parameters, member.name)
         IN  httpMethod.has /\ httpParam.has
    ELSE FALSE

shouldCoerce(member, parent, methods) ==
    IF hasKind(member) /\ member.kind = "Parameter" /\ parent.element.kind = "Method"
    THEN LET httpMethod == getHttpMethodByName(methods, parent.element.name)
             httpParam == findHttpParam(httpMethod.parameters, member.name)
         IN  /\ httpMethod.has
             /\ httpParam.has
             /\ httpParam.in \in {"header", "query", "path"}
    ELSE FALSE

\* stringSchema that writes a minimum length of 1 as min(1)
stringSchemaWrong(member) ==
    LET enumRule == find(member.rules, "string-enum")
        minLengthRule == find(member.rules, "string-min-length")
        maxLengthRule == find(member.rules, "string-max-length")
        patternRule == find(member.rules, "string-pattern")
    IN  (IF member.constant.has THEN <<Quoted("z.literal", member.constant.value)>>
         ELSE IF enumRule.has THEN <<Quoted("z.enum", enumRule.n)>>
         ELSE <<Op("z.string", 0)>>
              \o (IF minLengthRule.has /\ maxLengthRule.has
                     /\ minLengthRule.n = maxLengthRule.n
                  THEN <<Op("length", minLengthRule.n)>>
                  ELSE When(minLengthRule.has, <<Op("min", minLengthRule.n)>>)
                       \o When(maxLengthRule.has, <<Op("max", maxLengthRule.n)>>))
              \o When(patternRule.has, <<Op("regex", patternRule.n)>>))
        \o When(member.default.has, <<Quoted("default", member.default.value)>>)

stringSchema(member) ==
    LET enumRule == find(member.rules, "string-enum")
        minLengthRule == find(member.rules, "string-min-length")
        maxLengthRule == find(member.rules, "string-max-length")
        patternRule == find(member.rules, "string-pattern")
    IN  (IF member.constant.has THEN <<Quoted("z.literal", member.constant.value)>>
         ELSE IF enumRule.has THEN <<Quoted("z.enum", enumRule.n)>>
         ELSE <<Op("z.string", 0)>>
              \o (IF minLengthRule.has /\ maxLengthRule.has
                     /\ minLengthRule.n = maxLengthRule.n
                  THEN <<Op("length", minLengthRule.n)>>
                  ELSE When(minLengthRule.has,
                            IF minLengthRule.n = 1 THEN <<Op("nonempty", 0)>>
                            ELSE <<Op("min", minLengthRule.n)>>)
                       \o When(maxLengthRule.has, <<Op("max", maxLengthRule.n)>>))
              \o When(patternRule.has, <<Op("regex", patternRule.n)>>))
        \o When(member.default.has, <<Quoted("default", member.default.value)>>)

\* numberSchema without the special case of a lower bound of 0
numberSchemaWrong(member, coerce) ==
    LET gtRule == find(member.rules, "number-gt")
        gteRule == find(member.rules, "number-gte")
        ltRule == find(member.rules, "number-lt")
        lteRule == find(member.rules, "number-lte")
        multipleOfRule == find(member.rules, "number-multiple-of")
    IN  (IF member.constant.has THEN <<Op("z.literal", member.constant.value)>>
         ELSE <<Op(IF coerce THEN "z.coerce.number" ELSE "z.number", 0)>>
              \o When(member.primitive \in {"integer", "long"}, <<Op("int", 0)>>)
              \o When(gtRule.has, <<Op("gt", gtRule.n)>>)
              \o When(gteRule.has, <<Op("gte", gteRule.n)>>)
              \o When(ltRule.has, IF ltRule.n = 0 THEN <<Op("negative", 0)>>
                                  ELSE <<Op("lt", ltRule.n)>>)
              \o When(lteRule.has, IF lteRule.n = 0 THEN <<Op("nonpositive", 0)>>
                                   ELSE <<Op("lte", lteRule.n)>>)
              \o When(multipleOfRule.has, <<Op("multipleOf", multipleOfRule.n)>>))
        \o When(member.default.has, <<Op("default", member.default.value)>>)

\* numberSchema that leaves the default out when the member has a constant
numberSchemaNoDefault(member, coerce) ==
    LET gtRule == find(member.rules, "number-gt")
        gteRule == find(member.rules, "number-gte")
        ltRule == find(member.rules, "number-lt")
        lteRule == find(member.rules, "number-lte")
        multipleOfRule == find(member.rules, "number-multiple-of")
    IN  IF member.constant.has THEN <<Op("z.literal", member.constant.value)>>
        ELSE <<Op(IF coerce THEN "z.coerce.number" ELSE "z.number", 0)>>
             \o When(member.primitive \in {"integer", "long"}, <<Op("int", 0)>>)
             \o When(gtRule.has, IF gtRule.n = 0 THEN <<Op("positive", 0)>>
                                 ELSE <<Op("gt", gtRule.n)>>)
             \o When(gteRule.has, IF gteRule.n = 0 THEN <<Op("nonnegative", 0)>>
                                  ELSE <<Op("gte", gteRule.n)>>)
             \o When(ltRule.has, IF ltRule.n = 0 THEN <<Op("negative", 0)>>
                                 ELSE <<Op("lt", ltRule.n)>>)
             \o When(lteRule.has, IF lteRule.n = 0 THEN <<Op("nonpositive", 0)>>
                                  ELSE <<Op("lte", lteRule.n)>>)
             \o When(multipleOfRule.has, <<Op("multipleOf", multipleOfRule.n)>>)
             \o When(member.default.has, <<Op("default", member.default.value)>>)

numberSchema(member, coerce) ==
    LET gtRule == find(member.rules, "number-gt")
        gteRule == find(member.rules, "number-gte")
        ltRule == find(member.rules, "number-lt")
        lteRule == find(member.rules, "number-lte")
        multipleOfRule == find(member.rules, "number-multiple-of")
    IN  (IF member.constant.has THEN <<Op("z.literal", member.constant.value)>>
         ELSE <<Op(IF coerce THEN "z.coerce.number" ELSE "z.number", 0)>>
              \o When(member.primitive \in {"integer", "long"}, <<Op("int", 0)>>)
              \o When(gtRule.has, IF gtRule.n = 0 THEN <<Op("positive", 0)>>
                                  ELSE <<Op("gt", gtRule.n)>>)
              \o When(gteRule.has, IF gteRule.n = 0 THEN <<Op("nonnegative", 0)>>
                                   ELSE <<Op("gte", gteRule.n)>>)
              \o When(ltRule.has, IF ltRule.n = 0 THEN <<Op("negative", 0)>>
                                  ELSE <<Op("lt", ltRule.n)>>)
              \o When(lteRule.has, IF lteRule.n = 0 THEN <<Op("nonpositive", 0)>>
                                   ELSE <<Op("lte", lteRule.n)>>)
              \o When(multipleOfRule.has, <<Op("multipleOf", multipleOfRule.n)>>))
        \o When(member.default.has, <<Op("default", member.default.value)>>)

booleanSchema(member, coerce) ==
    (IF member.constant.has THEN <<Op("z.literal", member.constant.value)>>
     ELSE <<Op(IF coerce THEN "z.coerce.boolean" ELSE "z.boolean", 0)>>)
    \o When(member.default.has, <<Op("default", member.default.value)>>)

Numeric == {"number", "integer", "long", "float", "double"}

primitiveSchema(member, parent, methods) ==
    CASE member.primitive = "null" -> <<Op("z.literal(null)", 0)>>
      [] member.primitive = "string" -> stringSchema(member)
      [] member.primitive \in Numeric ->
           numberSchema(member, shouldCoerce(member, parent, methods))
      [] member.primitive = "boolean" ->
           booleanSchema(member, shouldCoerce(member, parent, methods))
      [] member.primitive \in {"date", "date-time"} -> <<Op("z.coerce.date", 0)>>
      [] member.primitive \in {"binary", "untyped"} -> <<Op("z.any", 0)>>
      [] OTHER -> <<>>

\* a reference to another schema: lazy for the parent itself and for the
\* entities of options.circular
complexSchema(member, parent, options) ==
    IF \/ camel(member.typeName) = camel(parent.name)
       \/ \E k \in 1..Len(options.circular) :
             camel(options.circular[k].name) = camel(member.typeName)
    THEN <<RefOp("z.lazy", pascal(member.typeName))>>
    ELSE <<RefOp("ref", pascal(member.typeName))>>

arraySchema(member) ==
    LET minRule == find(member.rules, "array-min-items")
        maxRule == find(member.rules, "array-max-items")
    IN  When(member.isArray,
             <<Op("array", 0)>>
             \o When(minRule.has, IF minRule.n = 1 THEN <<Op("nonempty", 0)>>
                                  ELSE <<Op("min", minRule.n)>>)
             \o When(maxRule.has, <<Op("max", maxRule.n)>>))

\* optionalSchema that wraps a primitive member with a default too
optionalSchemaWrong(member, options) ==
    When(/\ ~isRequired(member)
         /\ (~hasKind(member) \/ member.kind \notin {"MapKey", "MapValue"})
         /\ ~options.preventOptional,
         <<Op("optional", 0)>>)

optionalSchema(member, options) ==
    When(/\ ~isRequired(member)
         /\ (~hasKind(member) \/ member.kind \notin {"MapKey", "MapValue"})
         /\ ~options.preventOptional
         /\ (~member.isPrimitive \/ ~member.default.has),
         <<Op("optional", 0)>>)

buildMemberSchema(member, parent, options, methods) ==
    (IF member.isPrimitive THEN primitiveSchema(member, parent, methods)
     ELSE complexSchema(member, parent, options))
    \o arraySchema(member)
    \o optionalSchema(member, options)

(***************************************************************************)
(* buildSchema: the lines one entity yields.                               *)
(***************************************************************************)
Line(t, name, names, schema, n) ==
    [t |-> t, name |-> name, names |-> names, schema |-> schema, n |-> n]

Text(t) == Line(t, <<>>, <<>>, <<>>, 0)

Flatten(lists) ==
    LET f[k \in 0..Len(lists)] == IF k = 0 THEN <<>> ELSE f[k - 1] \o lists[k]
    IN  f[Len(lists)]

buildMember(member, parent, list, methods) ==
    <<Line("member", camel(member.name), <<>>,
           buildMemberSchema(member, parent, Circular(list), methods), 0)>>

buildRequiredKey(name, value, parent, list, methods) ==
    <<Line("member", name, <<>>,
           buildMemberSchema(value, parent, Circular(list), methods), 0)>>

\* isObject that takes every map for an object
isObjectWrong(element) ==
    Len(element.properties) > 0 \/ element.mapProperties.present

\* the test for the object wrapper of a Type
isObject(element) ==
    \/ Len(element.properties) > 0
    \/ element.mapProperties.present /\ Len(element.mapProperties.requiredKeys) > 0

buildTypeSchema(schema, list, methods) ==
    LET element == schema.element
        name == schema.name
        map == element.mapProperties
        maxRule == find(element.rules, "object-max-properties")
        minRule == find(element.rules, "object-min-properties")
        emittedPropCount ==
          Len(element.properties) + (IF map.present THEN Len(map.requiredKeys) ELSE 0)
    IN  When(map.present /\ Len(map.key.rules) > 0,
             When(Len(element.properties) > 0,
                  <<Line("keySet", camel(name),
                         [k \in 1..Len(element.properties) |-> element.properties[k].name],
                         <<>>, 0)>>)
             \o <<Line("keySchema", pascal(name), <<>>,
                       buildMemberSchema(map.key, schema, NoOptions, methods), 0)>>)
        \o <<Line("export", pascal(name), <<>>, <<>>, 0)>>
        \o (IF isObject(element)
            THEN <<Text("z.object({")>>
                 \o Flatten([k \in 1..Len(element.properties) |->
                               buildMember(element.properties[k], schema, list, methods)])
                 \o When(map.present,
                         Flatten([k \in 1..Len(map.requiredKeys) |->
                                    buildRequiredKey(camel(map.requiredKeys[k]), map.value,
                                                     schema, list, methods)]))
                 \o <<Text("})")>>
                 \o When(map.present /\ (~maxRule.has \/ maxRule.n > emittedPropCount),
                         <<Line("catchall", <<>>, <<>>,
                                buildMemberSchema(map.value, schema, NoOptions, methods),
                                0)>>)
            ELSE IF map.present
            THEN <<Line("z.record", <<>>, <<>>,
                        buildMemberSchema(map.value, schema, NoOptions, methods), 0)>>
            ELSE <<Text("z.record(z.any())")>>)
        \o When(map.present,
                When(maxRule.has, <<Line("refineMax", <<>>, <<>>, <<>>, maxRule.n)>>)
                \o When(minRule.has, <<Line("refineMin", <<>>, <<>>, <<>>, minRule.n)>>))
        \o When(map.present /\ (Len(map.key.rules) > 0 \/ ~map.key.isPrimitive),
                <<Text("superRefine{")>>
                \o When(Len(element.properties) > 0,
                        <<Line("keySetHas", camel(name), <<>>, <<>>, 0)>>)
                \o (IF map.key.isPrimitive
                    THEN <<Line("safeParseKeySchema", pascal(name), <<>>, <<>>, 0)>>
                    ELSE <<Line("safeParseSchema", pascal(map.key.typeName), <<>>, <<>>, 0)>>)
                \o <<Text("superRefine}")>>)

buildMethodSchema(schema, list, methods) ==
    <<Line("exportObject", pascal(schema.name), <<>>, <<>>, 0)>>
    \o Flatten([k \in 1..Len(schema.element.parameters) |->
                  buildMember(schema.element.parameters[k], schema, list, methods)])
    \o <<Text("});")>>

\* isAlias that accepts any number of non-primitive members
isAliasWrong(element) == Len(complexNames(element.members)) >= 1

\* the test for the alias of a union
isAlias(element) == Len(complexNames(element.members)) = 1

\* buildUnionSchema that lists no variant of a union without a non-primitive
\* member and writes a comment in their place
buildUnionSchemaMarker(schema, methods) ==
    LET element == schema.element
        name == schema.name
    IN  IF isAlias(element)
        THEN <<Line("alias", pascal(name), <<>>,
                    <<RefOp("ref", complexNames(element.members)[1])>>, 0)>>
        ELSE (IF element.discriminator.present
              THEN <<Line("discriminatedUnion[", pascal(name),
                          <<camel(element.discriminator.value)>>, <<>>, 0)>>
              ELSE <<Line("union[", pascal(name), <<>>, <<>>, 0)>>)
             \o (IF complexNames(element.members) = <<>>
                 THEN <<Text("// Primitive unions are not yet supported")>>
                 ELSE [k \in 1..Len(element.members) |->
                         IF element.members[k].isPrimitive
                         THEN Line("variant", <<>>, <<>>,
                                   buildMemberSchema(element.members[k], schema,
                                                     PreventOptional, methods), 0)
                         ELSE Line("variant", <<>>, <<>>,
                                   <<RefOp("ref", pascal(element.members[k].typeName))>>,
                                   0)])
             \o <<Text("]);")>>

buildUnionSchema(schema, methods) ==
    LET element == schema.element
        name == schema.name
    IN  IF isAlias(element)
        THEN <<Line("alias", pascal(name), <<>>,
                    <<RefOp("ref", complexNames(element.members)[1])>>, 0)>>
        ELSE (IF element.discriminator.present
              THEN <<Line("discriminatedUnion[", pascal(name),
                          <<camel(element.discriminator.value)>>, <<>>, 0)>>
              ELSE <<Line("union[", pascal(name), <<>>, <<>>, 0)>>)
             \o [k \in 1..Len(element.members) |->
                   IF element.members[k].isPrimitive
                   THEN Line("variant", <<>>, <<>>,
                             buildMemberSchema(element.members[k], schema,
                                               PreventOptional, methods), 0)
                   ELSE Line("variant", <<>>, <<>>,
                             <<RefOp("ref", pascal(element.members[k].typeName))>>, 0)]
             \o <<Text("]);")>>

buildEnumSchema(schema) ==
    <<Line("enum[", pascal(schema.name), <<>>, <<>>, 0)>>
    \o [k \in 1..Len(schema.element.values) |->
          Line("enumValue", <<>>, <<>>, <<>>, schema.element.values[k])]
    \o <<Text("]);")>>

buildSchema(schema, list, methods) ==
    CASE schema.element.kind = "Type" -> buildTypeSchema(schema, list, methods)
      [] schema.element.kind = "Method" -> buildMethodSchema(schema, list, methods)
      [] schema.element.kind = "Union" -> buildUnionSchema(schema, methods)
      [] schema.element.kind = "Enum" -> buildEnumSchema(schema)

(***************************************************************************)
(* SchemaFile.body: sort the worklist, then emit the sorted entities and   *)
(* then the circular ones.                                                 *)
(***************************************************************************)
Start(list, methods) ==
    /\ schemas = list
    /\ httpMethods = methods
    /\ pc = "sort"
    /\ sorted = <<>>
    /\ unsorted = list
    /\ sortedNames = {}
    /\ prevUnsortedLength = Len(list)
    /\ circular = <<>>
    /\ ready = <<>>
    /\ idx = 1
    /\ out = <<>>

State ==
    [sorted |-> sorted, unsorted |-> unsorted, sortedNames |-> sortedNames,
     prevUnsortedLength |-> prevUnsortedLength, returned |-> FALSE,
     circular |-> circular, ready |-> ready]

\* one iteration of the loop of sort; it returns when the pass made no progress
Pass ==
    /\ pc = "sort"
    /\ Len(unsorted) > 0
    /\ LET st == SortPass(State) IN
         /\ sorted' = st.sorted
         /\ unsorted' = st.unsorted
         /\ sortedNames' = st.sortedNames
         /\ prevUnsortedLength' = st.prevUnsortedLength
         /\ circular' = st.circular
         /\ ready' = st.ready
         /\ pc' = IF st.returned THEN "emitSorted" ELSE "sort"
    /\ UNCHANGED <<schemas, httpMethods, idx, out>>

\* the loop of sort ends with nothing left unsorted
Return ==
    /\ pc = "sort"
    /\ Len(unsorted) = 0
    /\ pc' = "emitSorted"
    /\ circular' = <<>>
    /\ UNCHANGED <<schemas, httpMethods, sorted, unsorted, sortedNames,
                   prevUnsortedLength, ready, idx, out>>

EmitSorted ==
    /\ pc = "emitSorted"
    /\ idx <= Len(sorted)
    /\ out' = out \o buildSchema(sorted[idx], <<>>, httpMethods) \o <<Text("")>>
    /\ idx' = idx + 1
    /\ UNCHANGED <<schemas, httpMethods, pc, sorted, unsorted, sortedNames,
                   prevUnsortedLength, circular, ready>>

NextLoop ==
    /\ pc = "emitSorted"
    /\ idx > Len(sorted)
    /\ pc' = "emitCircular"
    /\ idx' = 1
    /\ UNCHANGED <<schemas, httpMethods, sorted, unsorted, sortedNames,
                   prevUnsortedLength, circular, ready, out>>

EmitCircular ==
    /\ pc = "emitCircular"
    /\ idx <= Len(circular)
    /\ out' = out \o buildSchema(circular[idx], circular, httpMethods) \o <<Text("")>>
    /\ idx' = idx + 1
    /\ UNCHANGED <<schemas, httpMethods, pc, sorted, unsorted, sortedNames,
                   prevUnsortedLength, circular, ready>>

Done ==
    /\ pc = "emitCircular"
    /\ idx > Len(circular)
    /\ pc' = "done"
    /\ UNCHANGED <<schemas, httpMethods, sorted, unsorted, sortedNames,
                   prevUnsortedLength, circular, ready, idx, out>>

Next == Pass \/ Return \/ EmitSorted \/ NextLoop \/ EmitCircular \/ Done

(***************************************************************************)
(* The worklists of the specification of sort and body.                    *)
(***************************************************************************)
\* the raw names of the entities, and one name that no entity carries
RawNames == <<<<"a", "b">>, <<"a", "_", "b">>, <<"b">>>>
Absent == <<"b", "a">>

Following(k) == RawNames[(k % Len(RawNames)) + 1]
Preceding(k) == RawNames[((k + Len(RawNames) - 2) % Len(RawNames)) + 1]

Property(name, typeName) == Complex("Property", name, typeName, Required, FALSE)
StringProperty(name) ==
    Primitive("Property", name, "string", Required, NoValue, NoValue, FALSE)
Variant(typeName) == Complex("TypedValue", <<>>, typeName, Required, FALSE)
MapValueOf(typeName) == Complex("MapValue", <<>>, typeName, <<>>, FALSE)
MapKeyOf(typeName) == Complex("MapKey", <<>>, typeName, <<>>, FALSE)

\* the properties that refer to the entities of the index set d, in the order
\* of RawNames
RefProperties(d) ==
    LET f[k \in 0..Len(RawNames)] ==
          IF k = 0 THEN <<>>
          ELSE f[k - 1] \o (IF k \in d THEN <<Property(RawNames[k], RawNames[k])>>
                            ELSE <<>>)
    IN  f[Len(RawNames)]

\* the elements of the name RawNames[k]: they refer to themselves, to the other
\* names and to the absent name, from properties, parameters, union members,
\* map keys and map values
Shapes(k) ==
    LET n == RawNames[k] IN
    {Enum(n, <<1>>)}
    \cup {Type(n, RefProperties(d), NoMap, <<>>) :
            d \in {d \in SUBSET (1..Len(RawNames)) : Cardinality(d) <= MaxRefs}}
    \cup {Type(n, <<Property(<<"a">>, Absent)>>, NoMap, <<>>),
          Type(n, <<>>, Map(StringKey, MapValueOf(Following(k)), <<>>), <<>>),
          Type(n, <<StringProperty(<<"a">>)>>,
               Map(MapKeyOf(Preceding(k)), MapValueOf(Following(k)), <<<<"b">>>>), <<>>),
          Method(n, <<Complex("Parameter", <<"a">>, Preceding(k), Required, FALSE)>>),
          Union(n, <<Variant(Following(k)), Variant(Preceding(k))>>, NoDiscriminator)}

KindRank(kind) ==
    CASE kind = "Type" -> 1 [] kind = "Method" -> 2 [] kind = "Union" -> 3
      [] kind = "Enum" -> 4

AllShapes == UNION {Shapes(k) : k \in 1..Len(RawNames)}

\* body collects the types, then the methods, then the unions, then the enums;
\* no two entities of a service have the same Name
Collects(elements, element) ==
    /\ \A i \in 1..Len(elements) : elements[i].name # element.name
    /\ elements # <<>> =>
         KindRank(elements[Len(elements)].kind) <= KindRank(element.kind)

RECURSIVE Services(_)
Services(len) ==
    IF len = 0 THEN {<<>>}
    ELSE {Append(w, e) : <<w, e>> \in
            {x \in Services(len - 1) \X AllShapes : Collects(x[1], x[2])}}

Worklist(elements) == [k \in 1..Len(elements) |-> Schema(elements[k])]

Init ==
    \E len \in 0..Len(RawNames) :
       \E elements \in Services(len) : Start(Worklist(elements), <<>>)

Spec == Init /\ [][Next]_vars

(***************************************************************************)
(* The reference relation of a worklist, as the claims state it.           *)
(***************************************************************************)
Range(s) == {s[k] : k \in 1..Len(s)}

MembersOf(element) ==
    Range(element.properties) \cup Range(element.parameters)
    \cup Range(element.members)
    \cup (IF element.mapProperties.present
          THEN {element.mapProperties.key, element.mapProperties.value} ELSE {})

\* the Names an entity refers to, itself excluded
References(schema) ==
    {pascal(m.typeName) : m \in {m \in MembersOf(schema.element) : ~m.isPrimitive}}
    \ {schema.name}

Resolved(list) == \A s \in Range(list) : References(s) \subseteq NameSet(list)

\* the Names reached from the Names of from in 1..n steps of the relation
RECURSIVE Reached(_, _, _)
Reached(list, from, n) ==
    IF n = 0 THEN {}
    ELSE LET step == UNION {References(s) : s \in {s \in Range(list) : s.name \in from}}
         IN  step \cup Reached(list, step, n - 1)

OnCycle(list, schema) == schema.name \in Reached(list, {schema.name}, Len(list))

Acyclic(list) == \A s \in Range(list) : ~OnCycle(list, s)

Occurrences(s, e) == Cardinality({k \in 1..Len(s) : s[k] = e})

\* t holds every element of s exactly once and nothing else
IsPermutation(t, s) ==
    /\ Len(t) = Len(s)
    /\ \A e \in Range(s) : Occurrences(t, e) = 1

Position(s, name) == CHOOSE k \in 1..Len(s) : s[k].name = name

SortReturned == pc # "sort"

(***************************************************************************)
(* C1: for a worklist with unique Names whose references all resolve and   *)
(* form no cycle, sort returns circular = [] and a sorted list that holds  *)
(* every input entity exactly once, each entity after every entity it      *)
(* refers to.                                                              *)
(***************************************************************************)
C1_AcyclicOrder ==
    (SortReturned /\ Resolved(schemas) /\ Acyclic(schemas)) =>
       /\ circular = <<>>
       /\ IsPermutation(sorted, schemas)
       /\ \A i \in 1..Len(sorted) : \A r \in References(sorted[i]) :
             \E j \in 1..(i - 1) : sorted[j].name = r

\* a chain of three entities was sorted in three passes
C1_Witness ==
    /\ pc = "done"
    /\ Resolved(schemas) /\ Acyclic(schemas)
    /\ Len(schemas) = 3 /\ Len(ready) = 3
    /\ \E s \in Range(schemas) : Cardinality(References(s)) = 2

(***************************************************************************)
(* C2: in the output of body every reference to another entity's schema    *)
(* (in a declared member, a required map key, a catch-all or record value, *)
(* a union variant) is lazy or names an entity whose declaration was       *)
(* emitted earlier.                                                        *)
(***************************************************************************)
IsDeclaration(line) ==
    line.t \in {"export", "exportObject", "alias", "union[", "discriminatedUnion[",
                "enum["}

\* the entity named name was declared, whole, before line i
DeclaredBefore(lines, i, name) ==
    \E j \in 1..(i - 1) :
       /\ IsDeclaration(lines[j])
       /\ lines[j].name = name
       /\ \E k \in (j + 1)..(i - 1) : lines[k].t = ""

\* (of a worklist whose references all resolve: a reference to a Name that no
\* entity carries has no declaration to follow)
C2_ReferencesLazyOrEarlier ==
    Resolved(schemas) =>
       \A i \in 1..Len(out) :
          out[i].t \in {"member", "catchall", "z.record", "variant", "alias"} =>
             \A k \in 1..Len(out[i].schema) :
                out[i].schema[k].op = "ref" =>
                   DeclaredBefore(out, i, out[i].schema[k].ref)

(***************************************************************************)
(* C3: sort places every entity that lies on a reference cycle of length   *)
(* at least 2 in circular and not in sorted.                               *)
(***************************************************************************)
C3_CycleIsCircular ==
    SortReturned =>
       \A s \in Range(schemas) :
          OnCycle(schemas, s) => s \in Range(circular) /\ s \notin Range(sorted)

\* a worklist with a cycle and an entity outside it that was sorted
C3_Witness ==
    /\ pc = "done"
    /\ \E s \in Range(schemas) : OnCycle(schemas, s)
    /\ Len(sorted) > 0
    /\ Len(circular) >= 2

(***************************************************************************)
(* C4: the loop of sort makes at most |entities| passes, and ends with     *)
(* nothing pending or at the first pass in which no entity became ready.   *)
(***************************************************************************)
C4_PassesBounded ==
    /\ Len(ready) <= Len(schemas)
    /\ \A k \in 1..(Len(ready) - 1) : ready[k] > 0
    /\ ~SortReturned => \A k \in 1..Len(ready) : ready[k] > 0
    /\ SortReturned =>
          \/ Len(unsorted) = 0 /\ \A k \in 1..Len(ready) : ready[k] > 0
          \/ Len(ready) > 0 /\ ready[Len(ready)] = 0 /\ Len(unsorted) > 0

\* as many passes as entities, the last of them without progress
C4_Witness ==
    /\ SortReturned
    /\ Len(schemas) = 3 /\ Len(ready) = 3
    /\ ready[3] = 0

(***************************************************************************)
(* C5: the entities that became ready in the same pass are in ascending    *)
(* order of Name, so the sorted list is the same for every permutation of  *)
(* the worklist.                                                           *)
(***************************************************************************)
\* the pass in which sorted[i] became ready
Layer(i) ==
    LET upTo[k \in 0..Len(ready)] == IF k = 0 THEN 0 ELSE upTo[k - 1] + ready[k]
    IN  CHOOSE k \in 1..Len(ready) : upTo[k - 1] < i /\ i <= upTo[k]

SameLayer(i, j) == Layer(i) = Layer(j)

CodeUnits(s) == [k \in 1..Len(s) |-> CodeUnit(s[k])]

codeUnitCompare(a, b) == LexCompare(CodeUnits(a), CodeUnits(b))

Reorderings(s) ==
    {[k \in 1..Len(s) |-> s[p[k]]] :
       p \in {p \in [1..Len(s) -> 1..Len(s)] :
                \A i, j \in 1..Len(s) : i # j => p[i] # p[j]}}

\* the claim as stated: the order is the plain order of the code units
C5_CodeUnitOrder ==
    SortReturned =>
       \A i \in 1..(Len(sorted) - 1) :
          SameLayer(i, i + 1) => codeUnitCompare(sorted[i].name, sorted[i + 1].name) < 0

\* the order is that of localeCompare, and the input order does not matter
C5_LocaleOrder ==
    /\ SortReturned =>
          \A i \in 1..(Len(sorted) - 1) :
             SameLayer(i, i + 1) => localeCompare(sorted[i].name, sorted[i + 1].name) < 0
    /\ (pc = "emitSorted" /\ idx = 1) =>
          \A p \in Reorderings(schemas) : sort(p).sorted = sorted

\* two Names that differ in case only became ready in the same pass
C5_Witness ==
    /\ pc = "done"
    /\ \E i \in 1..(Len(sorted) - 1) :
          /\ SameLayer(i, i + 1)
          /\ sorted[i].name = <<"A", "b">>
          /\ sorted[i + 1].name = <<"A", "B">>
    /\ schemas[1].name = <<"A", "B">>

(***************************************************************************)
(* C6: sorted and the pending entities (at the end: circular) are disjoint *)
(* and hold every input entity exactly once; body emits one declaration    *)
(* per entity, the sorted ones in order, then the circular ones.           *)
(***************************************************************************)
Declarations(lines) ==
    LET f[k \in 0..Len(lines)] ==
          IF k = 0 THEN <<>>
          ELSE f[k - 1] \o (IF IsDeclaration(lines[k]) THEN <<lines[k].name>> ELSE <<>>)
    IN  f[Len(lines)]

Names(list) == [k \in 1..Len(list) |-> pascal(list[k].name)]

C6_Partition ==
    /\ IsPermutation(sorted \o unsorted, schemas)
    /\ Range(sorted) \cap Range(unsorted) = {}
    /\ SortReturned =>
          /\ circular = unsorted
          /\ IsPermutation(sorted \o circular, schemas)
          /\ Range(sorted) \cap Range(circular) = {}
    /\ pc = "emitSorted" => Declarations(out) = Names(SubSeq(sorted, 1, idx - 1))
    /\ pc = "emitCircular" =>
          Declarations(out) = Names(sorted \o SubSeq(circular, 1, idx - 1))
    /\ pc = "done" => Declarations(out) = Names(sorted \o circular)

\* body emitted sorted and circular entities
C6_Witness ==
    /\ pc = "done"
    /\ Len(sorted) >= 1 /\ Len(circular) >= 2
    /\ Len(Declarations(out)) = 3

(***************************************************************************)
(* The worklists of the specification of buildSchema: one Type or Union.   *)
(***************************************************************************)
Self == <<"a", "b">>

\* the sequences of at most n elements of the sequence pool, in its order
SubSeqs(pool, n) ==
    {SelectSeq(pool, LAMBDA x : x \in d) :
       d \in {d \in SUBSET Range(pool) : Cardinality(d) <= n}}

PropertyPool ==
    <<StringProperty(<<"a">>),
      Primitive("Property", <<"b">>, "number", <<>>, NoValue, NoValue, FALSE),
      Property(<<"a", "_", "b">>, Self),
      StringProperty(<<"b", "a">>)>>

KeyPool == <<<<"a">>, <<"b">>, <<"a", "b">>>>

Maps ==
    {NoMap}
    \cup {Map(key, value, SubSeq(KeyPool, 1, n)) :
            key \in {StringKey,
                     Primitive("MapKey", <<>>, "string", <<Rule("string-min-length", 1)>>,
                               NoValue, NoValue, FALSE),
                     MapKeyOf(Absent),
                     Complex("MapKey", <<>>, Self, <<Rule("string-max-length", 2)>>, FALSE)},
            value \in {StringValue,
                       Primitive("MapValue", <<>>, "integer", <<Rule("number-gte", 0)>>,
                                 NoValue, NoValue, FALSE),
                       MapValueOf(Self)},
            n \in 0..MaxKeys}

TypeRules ==
    {mx \o mn : mx \in {<<>>} \cup {<<Rule("object-max-properties", n)>> : n \in 1..3},
                mn \in {<<>>, <<Rule("object-min-properties", 1)>>}}

VariantPool ==
    {Primitive("TypedValue", <<>>, "string", <<>>, NoValue, NoValue, FALSE),
     Primitive("TypedValue", <<>>, "integer", <<Rule("number-gt", 0)>>, NoValue, Val(1),
               FALSE),
     Complex("TypedValue", <<>>, Self, <<>>, FALSE),
     Complex("TypedValue", <<>>, <<"b">>, <<>>, FALSE)}

Discriminators == {NoDiscriminator, [present |-> TRUE, value |-> <<"a", "_", "b">>]}

InitSchema ==
    \/ \E properties \in SubSeqs(PropertyPool, MaxProps) :
          \E map \in Maps, rules \in TypeRules :
             Start(Worklist(<<Type(Self, properties, map, rules)>>), <<>>)
    \/ \E len \in 0..MaxMembers :
          \E members \in [1..len -> VariantPool], discriminator \in Discriminators :
             Start(Worklist(<<Union(Self, members, discriminator)>>), <<>>)

SpecSchema == InitSchema /\ [][Next]_vars

(***************************************************************************)
(* The lines of the single entity of a worklist, as the claims read them.  *)
(***************************************************************************)
Entity == schemas[1]

LinesOf(t) == SelectSeq(out, LAMBDA line : line.t = t)

HasLine(t) == \E i \in 1..Len(out) : out[i].t = t

HasOp(schema, op) == \E k \in 1..Len(schema) : schema[k].op = op

(***************************************************************************)
(* C7: a Type with no declared property and a map extension yields a pure  *)
(* record schema built from the map value's schema, with no object wrapper *)
(* and no catch-all.                                                       *)
(***************************************************************************)
IsPureRecord ==
    /\ Len(LinesOf("z.record")) = 1
    /\ LinesOf("z.record")[1].schema
         = buildMemberSchema(Entity.element.mapProperties.value, Entity, NoOptions,
                             httpMethods)
    /\ ~HasLine("z.object({") /\ ~HasLine("member") /\ ~HasLine("catchall")
    /\ ~HasLine("z.record(z.any())")

ComplexVariants(element) ==
    {k \in 1..Len(element.members) : ~element.members[k].isPrimitive}

\* the schema of a primitive variant: that of the member, never optional
IsInline(schema, member) ==
    /\ schema # <<>>
    /\ ~HasOp(schema, "optional")
    /\ ~HasOp(schema, "ref") /\ ~HasOp(schema, "z.lazy")
    /\ buildMemberSchema(member, Entity, NoOptions, httpMethods)
         \in {schema, Append(schema, Op("optional", 0))}

C8_WitnessUnion ==
    /\ pc = "done"
    /\ Entity.element.kind = "Union"
    /\ Cardinality(ComplexVariants(Entity.element)) = 2
    /\ Len(Entity.element.members) = 3
    /\ Entity.element.discriminator.present
    /\ HasLine("discriminatedUnion[")

(***************************************************************************)
(* The worklists of the specification of buildMemberSchema: one entity     *)
(* with one member under test, as a parameter, a property, a map key, a    *)
(* map value or a union member.                                            *)
(***************************************************************************)
Primitives ==
    {"null", "string", "number", "integer", "long", "float", "double", "boolean",
     "date", "date-time", "binary", "untyped"}

Locations == {"header", "query", "path", "body", "formData"}

\* the sequences of len rules of the set pool, no two with the same id
RuleSeqs(pool, len) ==
    {r \in [1..len -> pool] : \A i, j \in 1..len : i # j => r[i].id # r[j].id}

NumberRules ==
    {Rule(id, n) : id \in {"number-gt", "number-gte", "number-lt", "number-lte",
                           "number-multiple-of"},
                   n \in {-1, 0, 2}}

StringRules ==
    {Rule(id, n) : id \in {"string-min-length", "string-max-length"}, n \in {1, 2}}
    \cup {Rule("string-pattern", 7), Rule("string-enum", 5)}

ArrayRules ==
    {Rule("array-min-items", 1), Rule("array-min-items", 2), Rule("array-max-items", 2)}

\* the type, the rules, the constant, the default and the array-ness of a
\* member under test
Subject(isPrimitive, primitive, typeName, rules, constant, default, isArray) ==
    [isPrimitive |-> isPrimitive, primitive |-> primitive, typeName |-> typeName,
     rules |-> rules, constant |-> constant, default |-> default, isArray |-> isArray]

MemberOf(kind, name, x) ==
    [kind |-> kind, name |-> name, isPrimitive |-> x.isPrimitive,
     primitive |-> x.primitive, typeName |-> x.typeName, isArray |-> x.isArray,
     constant |-> x.constant, default |-> x.default, rules |-> x.rules]

\* the HTTP bindings of a service whose one method is named method and has a
\* parameter written a_b
Bindings(method) ==
    {<<>>}
    \cup {<<[name |-> method, parameters |-> <<[name |-> <<"a", "B">>, in |-> in]>>]>> :
            in \in Locations}
    \cup {<<[name |-> method, parameters |-> <<[name |-> <<"b">>, in |-> "query"]>>]>>,
          <<[name |-> <<"a">>, parameters |-> <<[name |-> <<"a", "B">>, in |-> "query"]>>]>>}

QueryBinding ==
    <<[name |-> <<"b">>, parameters |-> <<[name |-> <<"a", "B">>, in |-> "query"]>>]>>

\* the subject as a parameter, a property, a map key, a map value and a union
\* member
InEveryPlace(x) ==
    \/ \E methods \in Bindings(<<"b">>) :
          Start(Worklist(<<Method(<<"b">>,
                                  <<MemberOf("Parameter", <<"a", "_", "b">>, x)>>)>>),
                methods)
    \/ \E element \in
          {Type(Self, <<MemberOf("Property", <<"a", "_", "b">>, x)>>, NoMap, <<>>),
           Type(Self, <<>>, Map(MemberOf("MapKey", <<>>, x), StringValue, <<>>), <<>>),
           Type(Self, <<>>, Map(StringKey, MemberOf("MapValue", <<>>, x), <<<<"a">>>>),
                <<>>),
           Union(Self, <<MemberOf("TypedValue", <<>>, x)>>, NoDiscriminator)} :
          Start(Worklist(<<element>>), <<>>)

\* the subject as a query parameter and as a property
AsParameterAndProperty(x) ==
    \/ Start(Worklist(<<Method(<<"b">>, <<MemberOf("Parameter", <<"a", "_", "b">>, x)>>)>>),
             QueryBinding)
    \/ Start(Worklist(<<Type(Self, <<MemberOf("Property", <<"a", "_", "b">>, x)>>,
                             NoMap, <<>>)>>), <<>>)

InitMember ==
    \/ \E primitive \in Primitives, required \in {<<>>, Required},
          constant \in {NoValue, Val(3)}, default \in {NoValue, Val(4)},
          isArray \in BOOLEAN :
          InEveryPlace(Subject(TRUE, primitive, <<>>, required, constant, default,
                               isArray))
    \/ \E typeName \in {Self, Absent}, required \in {<<>>, Required},
          isArray \in BOOLEAN :
          InEveryPlace(Subject(FALSE, "", typeName, required, NoValue, NoValue, isArray))
    \/ \E len \in 0..MaxRules :
          \E primitive \in {"integer", "double"}, rules \in RuleSeqs(NumberRules, len) :
             AsParameterAndProperty(Subject(TRUE, primitive, <<>>, rules, NoValue,
                                            NoValue, FALSE))
    \/ \E len \in 0..MaxRules :
          \E rules \in RuleSeqs(StringRules, len), constant \in {NoValue, Val(3)},
             default \in {NoValue, Val(4)} :
             AsParameterAndProperty(Subject(TRUE, "string", <<>>, rules, constant,
                                            default, FALSE))
    \/ \E len \in 0..MaxRules :
          \E rules \in RuleSeqs(ArrayRules, len) :
             AsParameterAndProperty(Subject(TRUE, "string", <<>>, rules, NoValue,
                                            NoValue, TRUE))

SpecMember == InitMember /\ [][Next]_vars

(***************************************************************************)
(* The members of the single entity, each with the schema the output holds *)
(* for it.                                                                 *)
(***************************************************************************)
Built ==
    LET element == Entity.element
        map == element.mapProperties
        fields == LinesOf("member")
        count == Len(element.properties)
    IN  CASE element.kind = "Type" ->
               {[member |-> element.properties[k], schema |-> fields[k].schema] :
                  k \in 1..count}
               \cup {[member |-> map.value, schema |-> fields[k].schema] :
                       k \in (count + 1)..Len(fields)}
               \cup {[member |-> map.value, schema |-> line.schema] :
                       line \in Range(LinesOf("catchall")) \cup Range(LinesOf("z.record"))}
               \cup {[member |-> map.key, schema |-> line.schema] :
                       line \in Range(LinesOf("keySchema"))}
          [] element.kind = "Method" ->
               {[member |-> element.parameters[k], schema |-> fields[k].schema] :
                  k \in 1..Len(fields)}
          [] element.kind = "Union" ->
               IF HasLine("alias") THEN {}
               ELSE {[member |-> element.members[k],
                      schema |-> LinesOf("variant")[k].schema] :
                       k \in {k \in 1..Len(element.members) :
                                element.members[k].isPrimitive}}
          [] OTHER -> {}

Coerces(schema) == HasOp(schema, "z.coerce.number") \/ HasOp(schema, "z.coerce.boolean")

\* the HTTP binding of the entity's method places the parameter in one of ins
BoundIn(member, ins) ==
    \E k \in 1..Len(httpMethods) :
       /\ httpMethods[k].name = Entity.element.name
       /\ \E j \in 1..Len(httpMethods[k].parameters) :
             /\ camel(httpMethods[k].parameters[j].name) = camel(member.name)
             /\ httpMethods[k].parameters[j].in \in ins

(***************************************************************************)
(* C9: a member's schema has a coercing number or boolean constructor      *)
(* exactly when the member is a non-constant numeric or boolean parameter  *)
(* of a method whose HTTP binding places it in header, query or path.      *)
(***************************************************************************)
C9_CoercionRule ==
    pc = "done" =>
       \A b \in Built :
          Coerces(b.schema) <=>
             /\ b.member.kind = "Parameter"
             /\ Entity.element.kind = "Method"
             /\ b.member.isPrimitive
             /\ b.member.primitive \in Numeric \cup {"boolean"}
             /\ ~b.member.constant.has
             /\ BoundIn(b.member, {"header", "query", "path"})

\* a path parameter was coerced, its name written in another case in the binding
C9_Witness ==
    /\ pc = "done"
    /\ \E b \in Built :
          /\ b.member.kind = "Parameter"
          /\ b.member.primitive = "boolean"
          /\ BoundIn(b.member, {"path"})
          /\ b.schema[1] = Op("z.coerce.boolean", 0)

\* a body parameter was not coerced
C9_WitnessBody ==
    /\ pc = "done"
    /\ \E b \in Built :
          /\ b.member.kind = "Parameter"
          /\ b.member.primitive = "integer"
          /\ BoundIn(b.member, {"body"})
          /\ b.schema[1] = Op("z.number", 0)

(***************************************************************************)
(* C10: the schema of a non-constant numeric member is, in this order, the *)
(* number constructor, int (integer and long only), gt, gte, lt, lte and   *)
(* multipleOf; a bound of 0 gives positive, nonnegative, negative or       *)
(* nonpositive, any other bound the comparison with that bound.            *)
(***************************************************************************)
HasRule(member, id) == \E k \in 1..Len(member.rules) : member.rules[k].id = id

Bound(member, id) ==
    member.rules[CHOOSE k \in 1..Len(member.rules) : member.rules[k].id = id].n

\* the operation of the rule id: zero for a bound of 0, compare otherwise
Comparison(member, id, zero, compare) ==
    IF ~HasRule(member, id) THEN <<>>
    ELSE IF Bound(member, id) = 0 THEN <<Op(zero, 0)>>
    ELSE <<Op(compare, Bound(member, id))>>

NumberOps ==
    {"z.number", "z.coerce.number", "int", "positive", "gt", "nonnegative", "gte",
     "negative", "lt", "nonpositive", "lte", "multipleOf"}

\* the operations of the number and its range, in the order of the output
NumberPart(schema) == SelectSeq(schema, LAMBDA op : op.op \in NumberOps)

IsPrefix(s, t) == Len(s) <= Len(t) /\ SubSeq(t, 1, Len(s)) = s

C10_NumberOrder ==
    pc = "done" =>
       \A b \in Built :
          (/\ b.member.isPrimitive
           /\ b.member.primitive \in Numeric
           /\ ~b.member.constant.has) =>
             LET m == b.member
                 expected ==
                   <<Op(IF Coerces(b.schema) THEN "z.coerce.number" ELSE "z.number", 0)>>
                   \o (IF m.primitive \in {"integer", "long"} THEN <<Op("int", 0)>>
                       ELSE <<>>)
                   \o Comparison(m, "number-gt", "positive", "gt")
                   \o Comparison(m, "number-gte", "nonnegative", "gte")
                   \o Comparison(m, "number-lt", "negative", "lt")
                   \o Comparison(m, "number-lte", "nonpositive", "lte")
                   \o (IF HasRule(m, "number-multiple-of")
                       THEN <<Op("multipleOf", Bound(m, "number-multiple-of"))>>
                       ELSE <<>>)
             IN  /\ NumberPart(b.schema) = expected
                 /\ IsPrefix(expected, b.schema)

\* an integer with the rules lte 2 and gte 0, given in that order
C10_Witness ==
    /\ pc = "done"
    /\ \E b \in Built :
          /\ b.member.primitive = "integer"
          /\ b.member.rules = <<Rule("number-lte", 2), Rule("number-gte", 0)>>
          /\ b.schema = <<Op("z.number", 0), Op("int", 0), Op("nonnegative", 0),
                          Op("lte", 2), Op("optional", 0)>>


(***************************************************************************)
(* C11: the schema of a non-constant, non-enum string member begins with   *)
(* the string constructor, then the length operations, then the pattern:   *)
(* length(n) alone when min-length and max-length carry the same n,        *)
(* otherwise nonempty for a min-length of 1, min(n) for any other          *)
(* min-length, and max(n) for a max-length; nothing but a default, the     *)
(* array operations or the optional wrapper follows.                       *)
(***************************************************************************)
LengthOps(member) ==
    IF /\ HasRule(member, "string-min-length")
       /\ HasRule(member, "string-max-length")
       /\ Bound(member, "string-min-length") = Bound(member, "string-max-length")
    THEN <<Op("length", Bound(member, "string-min-length"))>>
    ELSE (IF ~HasRule(member, "string-min-length") THEN <<>>
          ELSE IF Bound(member, "string-min-length") = 1 THEN <<Op("nonempty", 0)>>
          ELSE <<Op("min", Bound(member, "string-min-length"))>>)
         \o (IF HasRule(member, "string-max-length")
             THEN <<Op("max", Bound(member, "string-max-length"))>>
             ELSE <<>>)

PlainString(member) ==
    /\ member.isPrimitive
    /\ member.primitive = "string"
    /\ ~member.constant.has
    /\ ~HasRule(member, "string-enum")

C11_StringOrder ==
    pc = "done" =>
       \A b \in Built :
          PlainString(b.member) =>
             LET m == b.member
                 expected ==
                   <<Op("z.string", 0)>>
                   \o LengthOps(m)
                   \o (IF HasRule(m, "string-pattern")
                       THEN <<Op("regex", Bound(m, "string-pattern"))>>
                       ELSE <<>>)
             IN  /\ IsPrefix(expected, b.schema)
                 /\ Len(b.schema) > Len(expected) =>
                       b.schema[Len(expected) + 1].op \in {"default", "array", "optional"}

\* a string with the rules pattern and min-length 1, given in that order
C11_Witness ==
    /\ pc = "done"
    /\ \E b \in Built :
          /\ PlainString(b.member)
          /\ b.member.rules = <<Rule("string-pattern", 7), Rule("string-min-length", 1)>>
          /\ SubSeq(b.schema, 1, 3) = <<Op("z.string", 0), Op("nonempty", 0), Op("regex", 7)>>

\* a string whose min-length and max-length are both 1
C11_WitnessExact ==
    /\ pc = "done"
    /\ \E b \in Built :
          /\ PlainString(b.member)
          /\ b.member.rules = <<Rule("string-max-length", 1), Rule("string-min-length", 1)>>
          /\ SubSeq(b.schema, 1, 2) = <<Op("z.string", 0), Op("length", 1)>>


(***************************************************************************)
(* C12: a member's schema has the optional wrapper at most once and as its *)
(* last operation, and has it exactly when the member is not required, the *)
(* caller did not pass preventOptional (buildSchema passes it for the      *)
(* primitive members of a union and nowhere else), the member is neither a *)
(* map key nor a map value, and the member is not a primitive with a       *)
(* default value.                                                          *)
(***************************************************************************)
Optionals(schema) == {k \in 1..Len(schema) : schema[k].op = "optional"}

\* buildSchema passes preventOptional for the members of a union only
PassedPreventOptional == Entity.element.kind = "Union"

C12_OptionalWrapper ==
    pc = "done" =>
       \A b \in Built :
          /\ Optionals(b.schema) \subseteq {Len(b.schema)}
          /\ Optionals(b.schema) # {} <=>
                /\ ~HasRule(b.member, "required")
                /\ ~PassedPreventOptional
                /\ b.member.kind \notin {"MapKey", "MapValue"}
                /\ ~(b.member.isPrimitive /\ b.member.default.has)

\* an array property that is not required and has no default ends in optional
C12_Witness ==
    /\ pc = "done"
    /\ \E b \in Built :
          /\ b.member.kind = "Property"
          /\ b.member.isArray
          /\ ~HasRule(b.member, "required")
          /\ ~b.member.default.has
          /\ Len(b.schema) >= 3
          /\ Optionals(b.schema) = {Len(b.schema)}

\* a member that is not required and has no optional wrapper: a union member,
\* a map value, and a property with a default
C12_WitnessVariant ==
    /\ pc = "done"
    /\ \E b \in Built :
          /\ b.member.kind = "TypedValue"
          /\ ~HasRule(b.member, "required")
          /\ ~b.member.default.has
          /\ Optionals(b.schema) = {}

C12_WitnessMapValue ==
    /\ pc = "done"
    /\ \E b \in Built :
          /\ b.member.kind = "MapValue"
          /\ ~b.member.isPrimitive
          /\ ~HasRule(b.member, "required")
          /\ Optionals(b.schema) = {}

C12_WitnessDefault ==
    /\ pc = "done"
    /\ \E b \in Built :
          /\ b.member.kind = "Property"
          /\ b.member.isPrimitive
          /\ b.member.default.has
          /\ ~HasRule(b.member, "required")
          /\ Optionals(b.schema) = {}


(***************************************************************************)
(* C13: the schema of a numeric member with a constant value is the        *)
(* literal of that value alone: no coercion and no default operation, also *)
(* when the member carries a default value or is a header, query or path   *)
(* parameter.                                                              *)
(***************************************************************************)
NumericConstant(member) ==
    /\ member.isPrimitive
    /\ member.primitive \in Numeric
    /\ member.constant.has

\* what follows the base schema: the array operations and the optional wrapper
Wrappers == {"array", "nonempty", "min", "max", "optional"}

C13_LiteralOnly ==
    pc = "done" =>
       \A b \in Built :
          NumericConstant(b.member) =>
             /\ b.schema[1] = Op("z.literal", b.member.constant.value)
             /\ \A k \in 2..Len(b.schema) : b.schema[k].op \in Wrappers

(***************************************************************************)
(* C13, amended: the schema of a numeric member with a constant value      *)
(* begins with the literal of that value and is never coerced, also for a  *)
(* header, query or path parameter; the default operation follows the      *)
(* literal exactly when the member carries a default value.                *)
(***************************************************************************)
C13_LiteralThenDefault ==
    pc = "done" =>
       \A b \in Built :
          NumericConstant(b.member) =>
             LET base == <<Op("z.literal", b.member.constant.value)>>
                         \o (IF b.member.default.has
                             THEN <<Op("default", b.member.default.value)>>
                             ELSE <<>>)
             IN  /\ IsPrefix(base, b.schema)
                 /\ \A k \in (Len(base) + 1)..Len(b.schema) : b.schema[k].op \in Wrappers

\* a query parameter of type long with the constant 3 and the default 4
C13_Witness ==
    /\ pc = "done"
    /\ \E b \in Built :
          /\ b.member.kind = "Parameter"
          /\ b.member.primitive = "long"
          /\ BoundIn(b.member, {"query"})
          /\ b.member.constant = Val(3)
          /\ b.member.default = Val(4)
          /\ SubSeq(b.schema, 1, 2) = <<Op("z.literal", 3), Op("default", 4)>>


(***************************************************************************)
(* C14: a Type with an entity-level max-key-count or min-key-count rule,   *)
(* with or without a map extension, has one refinement per rule after the  *)
(* constructed schema, asserting the key count against the rule's bound    *)
(* (the line of the refinement carries the bound and the message).         *)
(***************************************************************************)
\* the lines with tag t are exactly one line with the bound of the rule id when
\* the entity has that rule, and none otherwise
RefinementOf(id, t) ==
    IF HasRule(Entity.element, id)
    THEN /\ Len(LinesOf(t)) = 1
         /\ LinesOf(t)[1].n = Bound(Entity.element, id)
    ELSE ~HasLine(t)

\* the refinements stand after the constructed schema
AfterConstruction(t) ==
    \A i \in 1..Len(out) :
       out[i].t = t =>
          \E j \in 1..(i - 1) :
             out[j].t \in {"})", "catchall", "z.record", "z.record(z.any())"}

C14_RefinementPerRule ==
    (pc = "done" /\ Entity.element.kind = "Type") =>
       /\ RefinementOf("object-max-properties", "refineMax")
       /\ RefinementOf("object-min-properties", "refineMin")
       /\ AfterConstruction("refineMax") /\ AfterConstruction("refineMin")

\* the same for the Types that have a map extension
C14_RefinementWithMap ==
    (/\ pc = "done"
     /\ Entity.element.kind = "Type"
     /\ Entity.element.mapProperties.present) =>
       /\ RefinementOf("object-max-properties", "refineMax")
       /\ RefinementOf("object-min-properties", "refineMin")
       /\ AfterConstruction("refineMax") /\ AfterConstruction("refineMin")


(***************************************************************************)
(* C15: for a Union all of whose variants are primitive, buildSchema emits *)
(* a "not supported" marker instead of variant schemas, and the run        *)
(* completes.                                                              *)
(***************************************************************************)
PrimitiveUnion ==
    /\ Entity.element.kind = "Union"
    /\ ComplexVariants(Entity.element) = {}

\* a line that is neither a declaration nor a variant: a marker
IsMarker(line) ==
    line.t \notin {"alias", "discriminatedUnion[", "union[", "variant", "]);", ""}

DeclaredEarlier(use, declaration) ==
    \A i \in 1..Len(out) :
       out[i].t = use =>
          \E j \in 1..(i - 1) : out[j].t = declaration /\ out[j].name = out[i].name

C16_HelperDeclaredBeforeUse ==
    (/\ pc = "done"
     /\ Entity.element.kind = "Type"
     /\ Entity.element.mapProperties.present) =>
       /\ DeclaredEarlier("keySetHas", "keySet")
       /\ DeclaredEarlier("safeParseKeySchema", "keySchema")

\* the part of the claim about the key-schema helper alone
C16_KeySchemaDeclaredBeforeUse ==
    (/\ pc = "done"
     /\ Entity.element.kind = "Type"
     /\ Entity.element.mapProperties.present) =>
       DeclaredEarlier("safeParseKeySchema", "keySchema")

====
